---- MODULE Spec2Model ----
(***************************************************************************)
(* A model of the CHIP-8 interpreter of src/main.rs: the State, Memory and *)
(* Timer structs, the frame buffer, Instruction::decode,                   *)
(* Instruction::execute and the loop of main.                              *)
(*                                                                         *)
(* Representation notes.                                                   *)
(*  - TLC's integers are 32-bit.  A usize is held as the two's-complement  *)
(*    representative of its 64-bit value, so usize::MAX is written -1; an  *)
(*    index is inside an array exactly when it lies in 0 .. len-1.         *)
(*  - A frame buffer cell is a u32 colour; the three colours the program   *)
(*    ever stores are written as the strings of their hex digits.          *)
(*  - mem and the frame buffer are held sparsely, without loss: mem as the  *)
(*    function from the addresses of its non-zero bytes to those bytes,    *)
(*    the frame buffer as the colour that fills it and the cells that hold *)
(*    another colour.  MemGet, MemPut, BufGet, BufPut read and write them  *)
(*    as the arrays they stand for.                                        *)
(*  - The arrays v and stack are tuples, which count from 1: register r is *)
(*    v[r + 1] and stack slot i is stack[i + 1].                           *)
(*  - Integer overflow of +, - on usize and u16 panics when the crate is   *)
(*    built with overflow checks (the dev profile) and wraps when it is    *)
(*    built without (the release profile).  The profile is chosen once, in *)
(*    Init, and never changes.                                             *)
(***************************************************************************)
EXTENDS Integers, Sequences, FiniteSets, TLC

VARIABLES
    s,                \* State: [ip, finished, address, sp, v]
    memory,           \* Memory: [stack, mem]
    buffer,           \* the frame buffer, WIDTH * HEIGHT colours
    timer,            \* Timer: [delay_value, sound_value, last_update]
    status,           \* where main is: "running", "exited", "error", "panic"
    now,              \* the monotonic clock, in microseconds
    keys,             \* the keys that are down (the window's input state)
    exit_signal,      \* the window was closed or Escape is down
    overflow_checks,  \* the build profile: TRUE iff overflow panics
    prev,             \* history: State, stack and frame buffer at the start
                      \* of the last loop iteration, the instruction it
                      \* decoded, whether execute ran to its end, and the
                      \* bytes of mem it changed, as they were before
    prev2,            \* history: prev without the stack and the changed
                      \* bytes, one iteration earlier
    hist              \* history: the calls not yet returned from (site and
                      \* stack pointer), the call the last return matched,
                      \* the returns since the last call, the updates that
                      \* ticked, the last write of each timer

vars == <<s, memory, buffer, timer, status, now, keys, exit_signal,
          overflow_checks, prev, prev2, hist>>

(***************************************************************************)
(* Program constants                                                       *)
(***************************************************************************)
WIDTH == 64
HEIGHT == 32
MEM_SIZE == 4096
STACK_SIZE == 16
NUM_REGS == 16
ROM_BASE == 512
TIMER_INTERVAL == 16600
VF == 15

UNSET_INITIAL == "00000000"   \* vec![0; WIDTH * HEIGHT]
UNSET == "ff000000"
SET == "ffffffff"

(***************************************************************************)
(* Bounds of the model                                                     *)
(***************************************************************************)
MaxNow == 40000

\* the clock readings between two calls of Timer::update
Elapses == {0, 10000}

\* the bytes rand::random::<u8>() is taken to return
RandSamples == {0, 1, 3, 5, 234, 255}

\* the keys whose state changes
KeySamples == {1}

(***************************************************************************)
(* Arithmetic of the machine's integer types                               *)
(***************************************************************************)
Max(a, b) == IF a >= b THEN a ELSE b

RECURSIVE BitAndN(_, _, _)
BitAndN(a, b, n) ==
    IF n = 0 THEN 0
    ELSE (IF a % 2 = 1 /\ b % 2 = 1 THEN 1 ELSE 0)
         + 2 * BitAndN(a \div 2, b \div 2, n - 1)

\* u8 & u8
BitAnd(a, b) == BitAndN(a, b, 8)

\* u8::wrapping_add, u8::wrapping_sub
WrappingAdd(a, b) == (a + b) % 256
WrappingSub(a, b) == (a - b) % 256

\* u8::checked_add(..).is_some(), u8::checked_sub(..).is_some()
CheckedAddIsSome(a, b) == a + b <= 255
\* (a faulty borrow test: equal operands count as a borrow)
CheckedSubIsSomeStrict(a, b) == a - b > 0
CheckedSubIsSome(a, b) == a - b >= 0

(***************************************************************************)
(* The arrays mem and buffer                                               *)
(***************************************************************************)
InStack(i) == i >= 0 /\ i < STACK_SIZE
InMem(i) == i >= 0 /\ i < MEM_SIZE
InScreen(i) == i >= 0 /\ i < WIDTH * HEIGHT

\* mem[a]
MemGet(mem, a) == IF a \in DOMAIN mem THEN mem[a] ELSE 0

\* mem[a] = b
MemPut(mem, a, b) ==
    IF b = 0 THEN [j \in DOMAIN mem \ {a} |-> mem[j]]
    ELSE [j \in DOMAIN mem \cup {a} |-> IF j = a THEN b ELSE mem[j]]

\* screen[i]
BufGet(buf, i) == IF i \in DOMAIN buf.cells THEN buf.cells[i] ELSE buf.fill

\* screen[i] = colour
BufPut(buf, i, colour) ==
    [buf EXCEPT !.cells =
        IF colour = buf.fill THEN [j \in DOMAIN buf.cells \ {i} |-> buf.cells[j]]
        ELSE [j \in DOMAIN buf.cells \cup {i} |->
                 IF j = i THEN colour ELSE buf.cells[j]]]

\* screen.fill(colour)
BufFill(colour) == [fill |-> colour, cells |-> <<>>]

(***************************************************************************)
(* Instruction::decode                                                     *)
(***************************************************************************)
Inst(op, x, y, kk, nnn) == [op |-> op, x |-> x, y |-> y, kk |-> kk, nnn |-> nnn]

NoInst == Inst("None", 0, 0, 0, 0)

addr(x, y, z) == x * 256 + y * 16 + z
const2(x, y) == (x * 16 + y) % 256

\* the match of decode on the four nibbles
DecodeNibbles(a, b, c, d) ==
    CASE a = 0 /\ b = 0 /\ c = 14 /\ d = 0 -> Inst("ClearScreen", 0, 0, 0, 0)
      [] a = 0 /\ b = 0 /\ c = 14 /\ d = 14 -> Inst("Return", 0, 0, 0, 0)
      [] a = 0 /\ ~(b = 0 /\ c = 14 /\ d \in {0, 14}) ->
             Inst("SysCall", 0, 0, 0, addr(b, c, d))
      [] a = 1 -> Inst("Jump", 0, 0, 0, addr(b, c, d))
      [] a = 2 -> Inst("Call", 0, 0, 0, addr(b, c, d))
      [] a = 3 -> Inst("SkipIfEqual", b, 0, const2(c, d), 0)
      [] a = 4 -> Inst("SkipIfNotEqual", b, 0, const2(c, d), 0)
      [] a = 5 /\ d = 0 -> Inst("SkipIfRegistersEqual", b, c, 0, 0)
      [] a = 6 -> Inst("SetImmediate", b, 0, const2(c, d), 0)
      [] a = 7 -> Inst("AddImmediate", b, 0, const2(c, d), 0)
      [] a = 8 /\ d = 0 -> Inst("SetRegister", b, c, 0, 0)
      [] a = 8 /\ d = 1 -> Inst("OrRegister", b, c, 0, 0)
      [] a = 8 /\ d = 2 -> Inst("AndRegister", b, c, 0, 0)
      [] a = 8 /\ d = 3 -> Inst("XorRegister", b, c, 0, 0)
      [] a = 8 /\ d = 4 -> Inst("AdcRegister", b, c, 0, 0)
      [] a = 8 /\ d = 5 -> Inst("SwbRegister", b, c, 0, 0)
      [] a = 8 /\ d = 6 -> Inst("ShrRegister", b, c, 0, 0)
      [] a = 8 /\ d = 7 -> Inst("ReverseSwbRegister", b, c, 0, 0)
      [] a = 8 /\ d = 14 -> Inst("ShlRegister", b, c, 0, 0)
      [] a = 9 /\ d = 0 -> Inst("SkipIfRegistersNotEqual", b, c, 0, 0)
      [] a = 10 -> Inst("StoreAddress", 0, 0, 0, addr(b, c, d))
      [] a = 11 -> Inst("JumpOffset", 0, 0, 0, addr(b, c, d))
      [] a = 12 -> Inst("StoreRandom", b, 0, const2(c, d), 0)
      [] a = 13 -> Inst("DrawSprite", b, c, d, 0)
      [] a = 14 /\ c = 9 /\ d = 14 -> Inst("SkipIfPressed", b, 0, 0, 0)
      [] a = 14 /\ c = 10 /\ d = 1 -> Inst("SkipIfNotPressed", b, 0, 0, 0)
      [] a = 15 /\ c = 0 /\ d = 7 -> Inst("SetFromDelay", b, 0, 0, 0)
      [] a = 15 /\ c = 0 /\ d = 10 -> Inst("WaitKeyPress", b, 0, 0, 0)
      [] a = 15 /\ c = 1 /\ d = 5 -> Inst("SetToDelay", b, 0, 0, 0)
      [] a = 15 /\ c = 1 /\ d = 8 -> Inst("SetToSound", b, 0, 0, 0)
      [] a = 15 /\ c = 1 /\ d = 14 -> Inst("AddAddress", b, 0, 0, 0)
      [] a = 15 /\ c = 2 /\ d = 9 -> Inst("SetAddressToSprite", b, 0, 0, 0)
      [] a = 15 /\ c = 3 /\ d = 3 -> Inst("StoreBCD", b, 0, 0, 0)
      [] a = 15 /\ c = 5 /\ d = 5 -> Inst("StoreRegisters", b, 0, 0, 0)
      [] a = 15 /\ c = 6 /\ d = 5 -> Inst("LoadRegisters", b, 0, 0, 0)
      [] OTHER -> Inst("Unknown", 0, 0, 0, 0)

\* decode: the two bytes at ip; reading past the end of mem panics
Decode(st, mem) ==
    IF st.ip + 1 >= MEM_SIZE
    THEN Inst("IndexPanic", 0, 0, 0, 0)
    ELSE DecodeNibbles(MemGet(mem.mem, st.ip) \div 16, MemGet(mem.mem, st.ip) % 16,
                       MemGet(mem.mem, st.ip + 1) \div 16,
                       MemGet(mem.mem, st.ip + 1) % 16)

(***************************************************************************)
(* State::get, State::set and the machine as execute sees it               *)
(***************************************************************************)
\* the four things execute borrows: State, Memory, the frame buffer, Timer
Machine(st, mem, scr, tm) == [s |-> st, memory |-> mem, buffer |-> scr, timer |-> tm]

\* self.v[r.0 as usize]
Reg(st, r) == st.v[r + 1]

Get(m, r) == Reg(m.s, r)
Set(m, r, c) == [m EXCEPT !.s.v[r + 1] = c]

\* what an arm of execute leaves: whether it ran to its end (FALSE: it
\* panicked on the way), the machine, and the local ip
Result(ok, m, ip) == [ok |-> ok, m |-> m, ip |-> ip]

(***************************************************************************)
(* Instruction::execute, arm by arm                                        *)
(***************************************************************************)
\* (a faulty clear: the frame buffer is left as it is)
ExecClearScreenKeeps(m, ip) == Result(TRUE, m, ip)

\* screen.fill(0xff000000)
ExecClearScreen(m, ip) ==
    Result(TRUE, [m EXCEPT !.buffer = BufFill(UNSET)], ip)

\* ip = mem.stack[s.sp]; s.sp -= 1
ExecReturn(m, ip, checks) ==
    IF ~InStack(m.s.sp) THEN Result(FALSE, m, ip)
    ELSE LET ret == m.memory.stack[m.s.sp + 1] IN
         IF m.s.sp = 0
         THEN IF checks THEN Result(FALSE, m, ret)
              ELSE Result(TRUE, [m EXCEPT !.s.sp = -1], ret)
         ELSE Result(TRUE, [m EXCEPT !.s.sp = m.s.sp - 1], ret)

\* (a faulty call: it pushes its own address, not the next instruction's)
ExecCallPushesCallSite(m, a, ip, checks) ==
    IF m.s.sp = -1 /\ checks THEN Result(FALSE, m, ip)
    ELSE LET m1 == [m EXCEPT !.s.sp = m.s.sp + 1] IN
         IF ~InStack(m1.s.sp) THEN Result(FALSE, m1, ip)
         ELSE Result(TRUE, [m1 EXCEPT !.memory.stack[m1.s.sp + 1] = m.s.ip], a)

\* s.sp += 1; mem.stack[s.sp] = ip; ip = a.0
ExecCall(m, a, ip, checks) ==
    IF m.s.sp = -1 /\ checks THEN Result(FALSE, m, ip)
    ELSE LET m1 == [m EXCEPT !.s.sp = m.s.sp + 1] IN
         IF ~InStack(m1.s.sp) THEN Result(FALSE, m1, ip)
         ELSE Result(TRUE, [m1 EXCEPT !.memory.stack[m1.s.sp + 1] = ip], a)

ExecSkipIfEqual(m, r, c, ip) ==
    Result(TRUE, m, IF Get(m, r) = c THEN ip + 2 ELSE ip)

ExecSkipIfNotEqual(m, r, c, ip) ==
    Result(TRUE, m, IF Get(m, r) # c THEN ip + 2 ELSE ip)

ExecSkipIfRegistersEqual(m, x, y, ip) ==
    Result(TRUE, m, IF Get(m, x) = Get(m, y) THEN ip + 2 ELSE ip)

ExecSetImmediate(m, r, c, ip) == Result(TRUE, Set(m, r, c), ip)

ExecAddImmediate(m, r, c, ip) ==
    Result(TRUE, Set(m, r, WrappingAdd(Get(m, r), c)), ip)

ExecSetRegister(m, x, y, ip) == Result(TRUE, Set(m, x, Get(m, y)), ip)

ExecAndRegister(m, x, y, ip) ==
    Result(TRUE, Set(m, x, BitAnd(Get(m, x), Get(m, y))), ip)

\* (a faulty add: the flag is written before the result)
ExecAdcRegisterFlagFirst(m, x, y, ip) ==
    LET a == Get(m, x)
        b == Get(m, y)
        c == CheckedAddIsSome(a, b)
    IN  Result(TRUE, Set(Set(m, VF, IF c THEN 1 ELSE 0), x, WrappingAdd(a, b)), ip)

\* c = a.checked_add(b).is_some(); set(x, a.wrapping_add(b)); set(VF, c)
ExecAdcRegister(m, x, y, ip) ==
    LET a == Get(m, x)
        b == Get(m, y)
        c == CheckedAddIsSome(a, b)
    IN  Result(TRUE, Set(Set(m, x, WrappingAdd(a, b)), VF, IF c THEN 1 ELSE 0), ip)

\* c = a.checked_sub(b).is_some(); set(x, a.wrapping_sub(b)); set(VF, c)
ExecSwbRegister(m, x, y, ip) ==
    LET a == Get(m, x)
        b == Get(m, y)
        c == CheckedSubIsSome(a, b)
    IN  Result(TRUE, Set(Set(m, x, WrappingSub(a, b)), VF, IF c THEN 1 ELSE 0), ip)

ExecStoreAddress(m, a, ip) == Result(TRUE, [m EXCEPT !.s.address = a], ip)

ExecStoreRandom(m, r, c, rnd, ip) == Result(TRUE, Set(m, r, BitAnd(rnd, c)), ip)

\* the bit of the sprite byte under column bit: pixels & (1 << (7 - bit))
SpriteBit(pixels, bit) == (pixels \div (2 ^ (7 - bit))) % 2

ScreenBit(colour) == IF colour = SET THEN 1 ELSE 0

XorBit(a, b) == (a + b) % 2

\* the colour a cell is left with
NewColour(new_bit) == IF new_bit = 0 THEN UNSET ELSE SET

\* (a faulty collision test: every cell left unset counts)
FlipsToUnsetAnyUnset(new_bit, screen_bit) == new_bit = 0

\* whether this cell raises flipped_any_pixels_to_unset
FlipsToUnset(new_bit, screen_bit) == new_bit = 0 /\ screen_bit = 1

\* the two loops of DrawSprite from pixel k (row k div 8, column k mod 8) on;
\* a read past the end of mem or of the frame buffer panics where it happens
RECURSIVE DrawPixels(_, _, _, _, _, _, _, _)
DrawPixels(k, n, x, y, address, mem, scr, flipped) ==
    IF k >= 8 * n THEN [ok |-> TRUE, buffer |-> scr, flipped |-> flipped]
    ELSE LET row == k \div 8
             bit == k % 8
             offset == x + (y + row) * WIDTH
         IN  IF ~InMem(address + row) \/ ~InScreen(offset + bit)
             THEN [ok |-> FALSE, buffer |-> scr, flipped |-> flipped]
             ELSE LET sprite_bit == SpriteBit(MemGet(mem, address + row), bit)
                      screen_bit == ScreenBit(BufGet(scr, offset + bit))
                      new_bit == XorBit(screen_bit, sprite_bit)
                  IN  DrawPixels(k + 1, n, x, y, address, mem,
                                 BufPut(scr, offset + bit, NewColour(new_bit)),
                                 flipped \/ FlipsToUnset(new_bit, screen_bit))

\* after the loops: s.set(VF, flipped_any_pixels_to_unset)
DrawResult(m, d, ip) ==
    IF d.ok
    THEN Result(TRUE, Set([m EXCEPT !.buffer = d.buffer], VF, IF d.flipped THEN 1 ELSE 0), ip)
    ELSE Result(FALSE, [m EXCEPT !.buffer = d.buffer], ip)

ExecDrawSprite(m, x, y, n, ip) ==
    DrawResult(m, DrawPixels(0, n, Get(m, x), Get(m, y), m.s.address,
                             m.memory.mem, m.buffer, FALSE), ip)

ExecSkipIfPressed(m, r, ip) == Result(TRUE, m, ip)

ExecSkipIfNotPressed(m, r, ip) == Result(TRUE, m, ip + 2)

ExecSetFromDelay(m, r, ip) == Result(TRUE, Set(m, r, m.timer.delay_value), ip)

ExecSetToDelay(m, r, ip) ==
    Result(TRUE, [m EXCEPT !.timer.delay_value = Get(m, r)], ip)

ExecSetToSound(m, r, ip) ==
    Result(TRUE, [m EXCEPT !.timer.sound_value = Get(m, r)], ip)

\* s.address = Address(s.address.0 + s.get(r).0 as u16): a u16 sum
ExecAddAddress(m, r, ip, checks) ==
    LET sum == m.s.address + Get(m, r) IN
    IF sum > 65535 /\ checks THEN Result(FALSE, m, ip)
    ELSE Result(TRUE, [m EXCEPT !.s.address = sum % 65536], ip)

ExecSetAddressToSprite(m, x, ip) ==
    LET val == Get(m, x) IN
    Result(TRUE, IF val <= 15 THEN [m EXCEPT !.s.address = 5 * val] ELSE m, ip)

\* mem.mem[a + i] = bs[i + 1] for i = 0, 1, ... in turn; the first index past
\* the end of mem panics, after the writes before it
RECURSIVE WriteBytes(_, _, _)
WriteBytes(mem, a, bs) ==
    IF Len(bs) = 0 THEN [ok |-> TRUE, mem |-> mem]
    ELSE IF ~InMem(a) THEN [ok |-> FALSE, mem |-> mem]
    ELSE WriteBytes(MemPut(mem, a, Head(bs)), a + 1, Tail(bs))

BcdHundreds(val) == val \div 100
\* (a faulty tens digit: the hundreds are not taken off)
BcdTensOfWhole(val) == val \div 10
BcdTens(val) == (val - 100 * BcdHundreds(val)) \div 10
BcdOnes(val) == val - 100 * BcdHundreds(val) - 10 * BcdTens(val)

\* what the writes of an arm leave
WriteResult(m, w, ip) == Result(w.ok, [m EXCEPT !.memory.mem = w.mem], ip)

ExecStoreBCD(m, r, ip) ==
    WriteResult(m, WriteBytes(m.memory.mem, m.s.address,
                              <<BcdHundreds(Get(m, r)), BcdTens(Get(m, r)),
                                BcdOnes(Get(m, r))>>), ip)

\* the number of registers the loops "for i in 0..x.0" visit
BlockCount(x) == x

ExecStoreRegisters(m, x, ip) ==
    WriteResult(m, WriteBytes(m.memory.mem, m.s.address,
                              [i \in 1 .. BlockCount(x) |-> Get(m, i - 1)]), ip)

ExecLoadRegisters(m, x, ip) ==
    Result(BlockCount(x) = 0 \/ m.s.address + BlockCount(x) <= MEM_SIZE,
           [m EXCEPT !.s.v = [r \in 1 .. NUM_REGS |->
               IF r - 1 < BlockCount(x) /\ InMem(m.s.address + r - 1)
               THEN MemGet(m.memory.mem, m.s.address + r - 1) ELSE m.s.v[r]]],
           ip)

\* (a faulty arm: the instruction is skipped, not refused)
ExecTodoSkips(m, ip) == Result(TRUE, m, ip)
\* SysCall and the catch-all arm: todo!()
ExecTodo(m, ip) == Result(FALSE, m, ip)

\* s.ip = ip, which a panic never reaches
Commit(r) == [ok |-> r.ok, m |-> IF r.ok THEN [r.m EXCEPT !.s.ip = r.ip] ELSE r.m]

\* execute: ip = s.ip + 2; the arm; s.ip = ip when the arm ran to its end
Execute(inst, m, rnd, checks) ==
    LET ip == m.s.ip + 2
        r == CASE inst.op = "ClearScreen" -> ExecClearScreen(m, ip)
               [] inst.op = "Return" -> ExecReturn(m, ip, checks)
               [] inst.op = "Jump" -> Result(TRUE, m, inst.nnn)
               [] inst.op = "Call" -> ExecCall(m, inst.nnn, ip, checks)
               [] inst.op = "SkipIfEqual" -> ExecSkipIfEqual(m, inst.x, inst.kk, ip)
               [] inst.op = "SkipIfNotEqual" -> ExecSkipIfNotEqual(m, inst.x, inst.kk, ip)
               [] inst.op = "SkipIfRegistersEqual" ->
                      ExecSkipIfRegistersEqual(m, inst.x, inst.y, ip)
               [] inst.op = "SetImmediate" -> ExecSetImmediate(m, inst.x, inst.kk, ip)
               [] inst.op = "AddImmediate" -> ExecAddImmediate(m, inst.x, inst.kk, ip)
               [] inst.op = "SetRegister" -> ExecSetRegister(m, inst.x, inst.y, ip)
               [] inst.op = "AndRegister" -> ExecAndRegister(m, inst.x, inst.y, ip)
               [] inst.op = "AdcRegister" -> ExecAdcRegister(m, inst.x, inst.y, ip)
               [] inst.op = "SwbRegister" -> ExecSwbRegister(m, inst.x, inst.y, ip)
               [] inst.op = "StoreAddress" -> ExecStoreAddress(m, inst.nnn, ip)
               [] inst.op = "StoreRandom" -> ExecStoreRandom(m, inst.x, inst.kk, rnd, ip)
               [] inst.op = "DrawSprite" -> ExecDrawSprite(m, inst.x, inst.y, inst.kk, ip)
               [] inst.op = "SkipIfPressed" -> ExecSkipIfPressed(m, inst.x, ip)
               [] inst.op = "SkipIfNotPressed" -> ExecSkipIfNotPressed(m, inst.x, ip)
               [] inst.op = "SetFromDelay" -> ExecSetFromDelay(m, inst.x, ip)
               [] inst.op = "SetToDelay" -> ExecSetToDelay(m, inst.x, ip)
               [] inst.op = "SetToSound" -> ExecSetToSound(m, inst.x, ip)
               [] inst.op = "AddAddress" -> ExecAddAddress(m, inst.x, ip, checks)
               [] inst.op = "SetAddressToSprite" -> ExecSetAddressToSprite(m, inst.x, ip)
               [] inst.op = "StoreBCD" -> ExecStoreBCD(m, inst.x, ip)
               [] inst.op = "StoreRegisters" -> ExecStoreRegisters(m, inst.x, ip)
               [] inst.op = "LoadRegisters" -> ExecLoadRegisters(m, inst.x, ip)
               [] OTHER -> ExecTodo(m, ip)
    IN  Commit(r)

(***************************************************************************)
(* Timer::update                                                           *)
(***************************************************************************)
TimerDue(diff) == diff >= TIMER_INTERVAL

\* (a faulty decrement: 0 wraps to 255)
DecrementWrapping(value) == (value - 1) % 256

Decrement(value) == IF value > 0 THEN value - 1 ELSE value

TimerUpdate(tm, t) ==
    IF TimerDue(t - tm.last_update)
    THEN [redraw |-> TRUE,
          timer |-> [delay_value |-> Decrement(tm.delay_value),
                     sound_value |-> Decrement(tm.sound_value),
                     last_update |-> t]]
    ELSE [redraw |-> FALSE, timer |-> tm]

(***************************************************************************)
(* The machine main builds: the font, the ROM at 0x200                     *)
(***************************************************************************)
\* the sixteen glyphs main copies to mem[0 .. 79]
Font ==
    <<\HF0, \H90, \H90, \H90, \HF0,
      \H20, \H60, \H20, \H20, \H70,
      \HF0, \H10, \HF0, \H80, \HF0,
      \HF0, \H10, \HF0, \H10, \HF0,
      \H90, \H90, \HF0, \H10, \H10,
      \HF0, \H80, \HF0, \H10, \HF0,
      \HF0, \H80, \HF0, \H90, \HF0,
      \HF0, \H10, \H20, \H40, \H40,
      \HF0, \H90, \HF0, \H90, \HF0,
      \HF0, \H90, \HF0, \H10, \HF0,
      \HF0, \H90, \HF0, \H90, \H90,
      \HE0, \H90, \HE0, \H90, \HE0,
      \HF0, \H80, \H80, \H80, \HF0,
      \HE0, \H90, \H90, \H90, \HE0,
      \HF0, \H80, \HF0, \H80, \HF0,
      \HF0, \H80, \HF0, \H80, \H80>>

(***************************************************************************)
(* The ROM files the model runs, as big-endian instruction words           *)
(***************************************************************************)
\* set-register-immediate(V0, 5); add-immediate(V0, 3); then spin
RomEndToEnd ==
    <<\H6005,  \* 200  V0 = 5
      \H7003,  \* 202  V0 += 3
      \H1204   \* 204  jump 204
    >>

\* add-with-carry and subtract-with-borrow on random operands
RomArith ==
    <<\HC0FF,  \* 200  V0 = rand
      \HC1FF,  \* 202  V1 = rand
      \H8200,  \* 204  V2 = V0
      \H8214,  \* 206  V2 += V1, VF = flag
      \H8015,  \* 208  V0 -= V1, VF = flag
      \H8F14,  \* 20A  VF += V1, VF = flag
      \H8F15,  \* 20C  VF -= V1, VF = flag
      \H120E   \* 20E  jump 20E
    >>

\* F calls itself until V0 = V1; V1 = 0 never stops it
RomRecurse ==
    <<\HC10F,  \* 200  V1 = rand & 0F
      \H2206,  \* 202  call 206
      \H1204,  \* 204  jump 204
      \H7001,  \* 206  F: V0 += 1
      \H5010,  \* 208  skip if V0 = V1
      \H2206,  \* 20A  call 206
      \H00EE   \* 20C  return
    >>

\* three nested calls from three sites, their returns, one return too many
RomNested ==
    <<\H2206,  \* 200  call 206
      \H00EE,  \* 202  return (stack empty)
      \H1204,  \* 204  jump 204
      \H220A,  \* 206  A: call 20A
      \H00EE,  \* 208  return
      \H220E,  \* 20A  B: call 20E
      \H00EE,  \* 20C  return
      \H00EE   \* 20E  C: return
    >>

\* BCD store, register block store and load, at the middle and the end of mem
RomMemory ==
    <<\HC0FF,  \* 200  V0 = rand
      \H6122,  \* 202  V1 = 22
      \H6233,  \* 204  V2 = 33
      \HA300,  \* 206  I = 300
      \HF033,  \* 208  BCD V0
      \HA310,  \* 20A  I = 310
      \HF255,  \* 20C  store V0..V2
      \H6000,  \* 20E  V0 = 0
      \H6100,  \* 210  V1 = 0
      \H6200,  \* 212  V2 = 0
      \HF265,  \* 214  load V0..V2
      \HF11E,  \* 216  I += V1
      \HAFFD,  \* 218  I = FFD
      \HF133,  \* 21A  BCD V1
      \HAFFE,  \* 21C  I = FFE
      \HF155,  \* 21E  store V0..V1
      \HF165,  \* 220  load V0..V1
      \HAFFF,  \* 222  I = FFF
      \HF033   \* 224  BCD V0
    >>

\* glyph 0 twice at (0,0); a background glyph; glyph F twice at a random place
RomDraw ==
    <<\H00E0,  \* 200  clear
      \HA000,  \* 202  I = 000
      \HD015,  \* 204  draw V0,V1,5
      \HD015,  \* 206  draw V0,V1,5
      \H6301,  \* 208  V3 = 1
      \H6401,  \* 20A  V4 = 1
      \H6208,  \* 20C  V2 = 8
      \HF229,  \* 20E  I = glyph V2
      \HD345,  \* 210  draw V3,V4,5
      \HC03F,  \* 212  V0 = rand & 3F
      \HC11F,  \* 214  V1 = rand & 1F
      \HC2FF,  \* 216  V2 = rand
      \HF229,  \* 218  I = glyph V2
      \HD015,  \* 21A  draw V0,V1,5
      \HD015,  \* 21C  draw V0,V1,5
      \H00E0,  \* 21E  clear
      \H1220   \* 220  jump 220
    >>

\* write both timers, then read the delay timer for ever
RomTimer ==
    <<\H6003,  \* 200  V0 = 3
      \HF015,  \* 202  delay = V0
      \H6101,  \* 204  V1 = 1
      \HF118,  \* 206  sound = V1
      \HF207,  \* 208  V2 = delay
      \H1208   \* 20A  jump 208
    >>

\* the key instructions on key 1
RomKeys ==
    <<\H6001,  \* 200  V0 = 1
      \HE09E,  \* 202  skip if key V0 down
      \H6101,  \* 204  V1 = 1
      \HE0A1,  \* 206  skip if key V0 up
      \H6201,  \* 208  V2 = 1
      \HF30A   \* 20A  V3 = wait key
    >>

\* the three register skips, and, then one of six unimplemented instructions
RomSkips ==
    <<\HC003,  \* 200  V0 = rand & 03
      \H3001,  \* 202  skip if V0 = 1
      \H6A01,  \* 204  VA = 1
      \H4003,  \* 206  skip if V0 # 3
      \H6B01,  \* 208  VB = 1
      \HC103,  \* 20A  V1 = rand & 03
      \H5010,  \* 20C  skip if V0 = V1
      \H6C01,  \* 20E  VC = 1
      \H8012,  \* 210  V0 &= V1
      \HC20F,  \* 212  V2 = rand & 0F
      \H4200,  \* 214  skip if V2 # 0
      \H8011,  \* 216  V0 |= V1
      \H4201,  \* 218  skip if V2 # 1
      \H8013,  \* 21A  V0 ^= V1
      \H4203,  \* 21C  skip if V2 # 3
      \H8016,  \* 21E  V0 >>= 1
      \H4205,  \* 220  skip if V2 # 5
      \H8017,  \* 222  V0 = V1 - V0
      \H420A,  \* 224  skip if V2 # A
      \H801E,  \* 226  V0 <<= 1
      \H9010   \* 228  skip if V0 # V1
    >>

\* one of: syscall, unknown opcode, jump-with-offset, the last bytes of mem
RomFaults ==
    <<\HC00F,  \* 200  V0 = rand & 0F
      \H4000,  \* 202  skip if V0 # 0
      \H0123,  \* 204  syscall 123
      \H4001,  \* 206  skip if V0 # 1
      \H5011,  \* 208  (no such opcode)
      \H4003,  \* 20A  skip if V0 # 3
      \HB300,  \* 20C  jump 300 + V0
      \H4005,  \* 20E  skip if V0 # 5
      \H1FFF,  \* 210  jump FFF
      \H400A,  \* 212  skip if V0 # A
      \HE000,  \* 214  (no such opcode)
      \H6160,  \* 216  V1 = 60
      \H6200,  \* 218  V2 = 00
      \HAFFE,  \* 21A  I = FFE
      \HF355,  \* 21C  store V0..V3
      \H1FFE   \* 21E  jump FFE
    >>

\* the index register: a glyph address for a random code, then past FFF
RomIndex ==
    <<\HC0FF,  \* 200  V0 = rand
      \HA123,  \* 202  I = 123
      \HF029,  \* 204  I = glyph V0
      \H61FF,  \* 206  V1 = FF
      \HAFFF,  \* 208  I = FFF
      \HF11E,  \* 20A  I += V1
      \H120C   \* 20C  jump 20C
    >>

Roms == <<RomEndToEnd, RomArith, RomRecurse, RomNested, RomMemory,
          RomDraw, RomTimer, RomKeys, RomSkips, RomFaults, RomIndex>>

\* the bytes of a ROM file
RomBytes(words) ==
    [i \in 1 .. 2 * Len(words) |->
        IF i % 2 = 1 THEN words[(i + 1) \div 2] \div 256 ELSE words[i \div 2] % 256]

\* Memory::default, then the ROM at 0x200, then the font at 0
LoadedMemory(rom) ==
    [stack |-> [i \in 1 .. STACK_SIZE |-> 0],
     mem |-> [j \in {i \in 0 .. Len(Font) - 1 : Font[i + 1] # 0}
                     \cup {i \in ROM_BASE .. ROM_BASE + Len(rom) - 1 :
                              i >= Len(Font) /\ rom[i - ROM_BASE + 1] # 0} |->
                 IF j < Len(Font) THEN Font[j + 1] ELSE rom[j - ROM_BASE + 1]]]

\* State::default
StateDefault ==
    [ip |-> ROM_BASE, finished |-> FALSE, address |-> 0, sp |-> 0,
     v |-> [r \in 1 .. NUM_REGS |-> 0]]

\* Timer::default, at clock reading t
TimerDefault(t) == [delay_value |-> 0, sound_value |-> 0, last_update |-> t]

\* vec![0; WIDTH * HEIGHT]
BufferDefault == BufFill(UNSET_INITIAL)

(***************************************************************************)
(* History                                                                 *)
(***************************************************************************)
NoSite == [site |-> -1, sp |-> 0]
NoWrite == [val |-> 0, at |-> 0]

\* the machine as it stands
Current == Machine(s, memory, buffer, timer)

\* the bytes of mem that differ between old and new, as they are in old
Changed(old, new) ==
    [a \in {j \in DOMAIN old \cup DOMAIN new : MemGet(old, j) # MemGet(new, j)} |->
        MemGet(old, a)]

\* prev after an iteration that decoded inst in machine m and left mem as new
Snapshot(inst, m, ok, new) ==
    [inst |-> inst, ok |-> ok, s |-> m.s, stack |-> m.memory.stack,
     buffer |-> m.buffer, changed |-> Changed(m.memory.mem, new)]

Older(p) == [inst |-> p.inst, ok |-> p.ok, s |-> p.s, buffer |-> p.buffer]

\* mem[a] at the start of the last iteration
OldMem(a) == IF a \in DOMAIN prev.changed THEN prev.changed[a] ELSE MemGet(memory.mem, a)

\* hist after an iteration that decoded inst in machine m, at clock reading t
HistAfter(inst, m, ok, redraw, t) ==
    [calls |-> IF ok /\ inst.op = "Call"
               THEN Append(hist.calls, [site |-> m.s.ip, sp |-> m.s.sp])
               ELSE IF ok /\ inst.op = "Return" /\ Len(hist.calls) > 0
               THEN SubSeq(hist.calls, 1, Len(hist.calls) - 1)
               ELSE hist.calls,
     popped |-> IF ok /\ inst.op = "Return" /\ Len(hist.calls) > 0
                THEN hist.calls[Len(hist.calls)] ELSE NoSite,
     unwound |-> IF ok /\ inst.op = "Return" /\ Len(hist.calls) > 0
                 THEN hist.unwound + 1
                 ELSE IF ok /\ inst.op = "Call" THEN 0 ELSE hist.unwound,
     ticks |-> IF redraw THEN hist.ticks + 1 ELSE hist.ticks,
     delay_set |-> IF ok /\ inst.op = "SetToDelay"
                   THEN [val |-> Get(m, inst.x), at |-> t] ELSE hist.delay_set,
     sound_set |-> IF ok /\ inst.op = "SetToSound"
                   THEN [val |-> Get(m, inst.x), at |-> t] ELSE hist.sound_set]

(***************************************************************************)
(* main                                                                    *)
(***************************************************************************)
Init ==
    \E r \in DOMAIN Roms, oc \in BOOLEAN :
        /\ s = StateDefault
        /\ memory = LoadedMemory(RomBytes(Roms[r]))
        /\ buffer = BufferDefault
        /\ timer = TimerDefault(0)
        /\ status = "running"
        /\ now = 0
        /\ keys = {}
        /\ exit_signal = FALSE
        /\ overflow_checks = oc
        /\ prev = Snapshot(NoInst, Machine(StateDefault, LoadedMemory(RomBytes(Roms[r])),
                                            BufferDefault, TimerDefault(0)), TRUE,
                           LoadedMemory(RomBytes(Roms[r])).mem)
        /\ prev2 = Older(prev)
        /\ hist = [calls |-> <<>>, popped |-> NoSite, unwound |-> 0, ticks |-> 0,
                   delay_set |-> NoWrite, sound_set |-> NoWrite]

\* (a faulty loop condition: the window is never asked)
LoopConditionIgnoresExit == ~s.finished

\* the loop condition of main: window.is_open() && !is_key_down(Escape) &&
\* !state.finished
LoopCondition == ~exit_signal /\ ~s.finished

\* the bytes rand::random can return to this instruction: only StoreRandom
\* calls it
RandomDraws(inst) == IF inst.op = "StoreRandom" THEN RandSamples ELSE {0}

\* decode, and execute unless decode failed
DecodeExecute(inst, m, rnd, checks) ==
    IF inst.op \in {"Unknown", "IndexPanic"}
    THEN [ok |-> FALSE, m |-> m]
    ELSE Execute(inst, m, rnd, checks)

\* how main ends when an iteration fails: decode's bail! is an Err, the
\* rest are panics
Failure(inst) == IF inst.op = "Unknown" THEN "error" ELSE "panic"

\* one iteration of the loop of main: timer.update(), decode, execute.  The
\* clock has advanced by dt since the iteration before.  (On a tick the
\* buffer is handed to window.update_with_buffer, which changes nothing
\* here.)
Iteration(dt) ==
    /\ status = "running"
    /\ LoopCondition
    /\ now + dt <= MaxNow
    /\ \E inst \in {Decode(s, memory)}, u \in {TimerUpdate(timer, now + dt)} :
       \E rnd \in RandomDraws(inst) :
       \E e \in {DecodeExecute(inst, Machine(s, memory, buffer, u.timer),
                               rnd, overflow_checks)} :
           /\ now' = now + dt
           /\ s' = e.m.s
           /\ memory' = e.m.memory
           /\ buffer' = e.m.buffer
           /\ timer' = e.m.timer
           /\ status' = IF e.ok THEN "running" ELSE Failure(inst)
           /\ prev' = Snapshot(inst, Current, e.ok, e.m.memory.mem)
           /\ prev2' = Older(prev)
           /\ hist' = HistAfter(inst, Current, e.ok, u.redraw, now + dt)
    /\ UNCHANGED <<keys, exit_signal, overflow_checks>>

\* the loop condition is false: main returns Ok(())
LoopExit ==
    /\ status = "running"
    /\ ~LoopCondition
    /\ status' = "exited"
    /\ UNCHANGED <<s, memory, buffer, timer, now, keys, exit_signal,
                   overflow_checks, prev, prev2, hist>>

\* a key goes down or up
KeyEvent(k) ==
    /\ status = "running"
    /\ keys' = IF k \in keys THEN keys \ {k} ELSE keys \cup {k}
    /\ UNCHANGED <<s, memory, buffer, timer, status, now, exit_signal,
                   overflow_checks, prev, prev2, hist>>

\* the window is closed, or Escape goes down
ExitEvent ==
    /\ status = "running"
    /\ ~exit_signal
    /\ exit_signal' = TRUE
    /\ UNCHANGED <<s, memory, buffer, timer, status, now, keys,
                   overflow_checks, prev, prev2, hist>>

Next ==
    \/ \E dt \in Elapses : Iteration(dt)
    \/ LoopExit
    \/ \E k \in KeySamples : KeyEvent(k)
    \/ ExitEvent

Spec == Init /\ [][Next]_vars

\* a step of the thread that runs main: an iteration of the loop, or the
\* test of the loop condition that ends it
Main == (\E dt \in Elapses : Iteration(dt)) \/ LoopExit

\* the ROM files of the liveness specification: all but the two whose
\* iterations (sprite drawing, block transfers) are the costliest to
\* evaluate under ENABLED
LiveRoms == {RomEndToEnd, RomArith, RomRecurse, RomNested, RomTimer, RomKeys,
             RomSkips, RomFaults, RomIndex}

LiveInit == Init /\ \E rom \in LiveRoms : memory = LoadedMemory(RomBytes(rom))

\* main's thread is not starved: while it has a step to take it takes one
LiveSpec == LiveInit /\ [][Next]_vars /\ WF_vars(Main)

(***************************************************************************)
(* Properties                                                              *)
(***************************************************************************)
\* the last iteration decoded op and execute ran to its end
Ran(op) == prev.inst.op = op /\ prev.ok

\* the cells of a frame buffer that are set
Lit(buf) ==
    IF buf.fill = SET
    THEN {i \in 0 .. WIDTH * HEIGHT - 1 : BufGet(buf, i) = SET}
    ELSE {i \in DOMAIN buf.cells : buf.cells[i] = SET}

\* C1: add-with-carry(X, Y), X not register 15, leaves register X =
\* (a + b) mod 256 and register 15 = 1 if a + b exceeds 255, else 0.
C1_AddWithCarry ==
    (Ran("AdcRegister") /\ prev.inst.x # VF) =>
        LET a == Reg(prev.s, prev.inst.x)
            b == Reg(prev.s, prev.inst.y)
        IN  /\ Reg(s, prev.inst.x) = IF a + b > 255 THEN a + b - 256 ELSE a + b
            /\ Reg(s, VF) = IF a + b > 255 THEN 1 ELSE 0

\* C2: from an empty stack 16 nested calls succeed, each pushing its return
\* address, and only the 17th fails.
C2_SixteenCallsSucceed ==
    /\ Ran("Call") =>
           /\ Len(hist.calls) <= STACK_SIZE
           /\ InStack(s.sp) /\ memory.stack[s.sp + 1] = prev.s.ip + 2
    /\ (prev.inst.op = "Call" /\ ~prev.ok) => Len(hist.calls) = STACK_SIZE

\* C3: after nested calls at p1 .. pn, the i-th return sets the program
\* counter to p(n-i+1) + 2, the instruction after the matching call, and
\* leaves the stack pointer as it was before that call; so after the last
\* return it is back to its value before the first call.
C3_ReturnsAreLifo ==
    (Ran("Return") /\ hist.popped # NoSite) =>
        /\ s.ip = hist.popped.site + 2
        /\ s.sp = hist.popped.sp

\* C3, witness: fifteen nested calls have been unwound by fifteen returns
C3_Witness ==
    /\ Ran("Return")
    /\ hist.unwound = 15
    /\ hist.calls = <<>>
    /\ hist.popped.site = ROM_BASE + 2
    /\ s.ip = ROM_BASE + 4
    /\ s.sp = 0

\* C4: a return with the call stack empty halts the engine: the program
\* counter is not set from the stack and the stack pointer does not wrap.
C4_ReturnOnEmptyStackHalts ==
    (prev.inst.op = "Return" /\ prev.s.sp = 0 /\ hist.popped = NoSite) =>
        /\ ~prev.ok
        /\ s.ip = prev.s.ip
        /\ s.sp = 0

\* C5: forward subtract-with-borrow(X, Y), X not register 15, leaves
\* register X = (a - b) mod 256 and register 15 = 1 if a >= b, 0 if a < b.
C5_SubtractWithBorrow ==
    (prev.inst.op = "SwbRegister" /\ prev.inst.x # VF) =>
        LET a == Reg(prev.s, prev.inst.x)
            b == Reg(prev.s, prev.inst.y)
        IN  /\ prev.ok
            /\ Reg(s, prev.inst.x) = IF a >= b THEN a - b ELSE a - b + 256
            /\ Reg(s, VF) = IF a >= b THEN 1 ELSE 0

\* C5, witness: 3 - 5 has left 254 and flag 0
C5_Witness ==
    /\ Ran("SwbRegister")
    /\ prev.inst.x # VF
    /\ Reg(prev.s, prev.inst.x) = 3
    /\ Reg(prev.s, prev.inst.y) = 5
    /\ Reg(s, prev.inst.x) = 254
    /\ Reg(s, VF) = 0

\* C6: with I + N inside memory, store-register-block(N) copies registers
\* 0 .. N inclusive to mem[I .. I+N], and load-register-block(N) copies
\* mem[I .. I+N] to registers 0 .. N inclusive.
C6_RegisterBlockInclusive ==
    /\ (prev.inst.op = "StoreRegisters" /\ InMem(prev.s.address + prev.inst.x)) =>
           /\ prev.ok
           /\ \A i \in 0 .. prev.inst.x :
                  MemGet(memory.mem, prev.s.address + i) = Reg(prev.s, i)
    /\ (prev.inst.op = "LoadRegisters" /\ InMem(prev.s.address + prev.inst.x)) =>
           /\ prev.ok
           /\ \A i \in 0 .. prev.inst.x :
                  Reg(s, i) = OldMem(prev.s.address + i)

\* C7: with I + 2 inside memory, BCD-store of register value v writes
\* digits h, t, o in 0 .. 9 with 100 h + 10 t + o = v at I, I+1, I+2 and
\* changes no other byte of memory and no register.
C7_BcdStore ==
    (prev.inst.op = "StoreBCD" /\ InMem(prev.s.address + 2)) =>
        LET i == prev.s.address
            h == MemGet(memory.mem, i)
            t == MemGet(memory.mem, i + 1)
            o == MemGet(memory.mem, i + 2)
        IN  /\ prev.ok
            /\ h \in 0 .. 9 /\ t \in 0 .. 9 /\ o \in 0 .. 9
            /\ 100 * h + 10 * t + o = Reg(prev.s, prev.inst.x)
            /\ \A a \in (0 .. MEM_SIZE - 1) \ {i, i + 1, i + 2} :
                   MemGet(memory.mem, a) = OldMem(a)
            /\ s.v = prev.s.v
            /\ s.address = prev.s.address

\* C7, witness: 234 has been stored as 2, 3, 4
C7_Witness ==
    /\ Ran("StoreBCD")
    /\ Reg(prev.s, prev.inst.x) = 234
    /\ MemGet(memory.mem, prev.s.address) = 2
    /\ MemGet(memory.mem, prev.s.address + 1) = 3
    /\ MemGet(memory.mem, prev.s.address + 2) = 4
    /\ OldMem(prev.s.address + 2) = 0

\* a draw whose position registers are not register 15 and whose sprite
\* lies inside the 64 x 32 grid
DrawInside(p) ==
    /\ p.inst.op = "DrawSprite"
    /\ p.inst.x # VF /\ p.inst.y # VF
    /\ Reg(p.s, p.inst.x) + 8 <= WIDTH
    /\ Reg(p.s, p.inst.y) + p.inst.kk <= HEIGHT
    /\ p.inst.kk = 0 \/ InMem(p.s.address + p.inst.kk - 1)

\* the last two iterations drew the same sprite at the same place
DrewTwice ==
    /\ DrawInside(prev2) /\ DrawInside(prev)
    /\ prev2.ok
    /\ prev.inst = prev2.inst
    /\ prev.s.address = prev2.s.address
    /\ Reg(prev.s, prev.inst.x) = Reg(prev2.s, prev.inst.x)
    /\ Reg(prev.s, prev.inst.y) = Reg(prev2.s, prev.inst.y)

\* C8: the same sprite drawn twice in succession leaves every cell set or
\* unset as it was before the first draw; after a draw register 15 is 1
\* iff some cell went from set to unset during it.
C8_DrawTwiceRestores ==
    /\ DrawInside(prev) =>
           /\ prev.ok
           /\ Reg(s, VF) = IF Lit(prev.buffer) \ Lit(buffer) # {} THEN 1 ELSE 0
    /\ DrewTwice => Lit(buffer) = Lit(prev2.buffer)

\* C8, witness: glyph 0 drawn twice at (0, 0) on a cleared screen
C8_Witness ==
    /\ DrewTwice
    /\ prev.s.address = 0 /\ prev.inst.kk = 5
    /\ Reg(prev.s, prev.inst.x) = 0 /\ Reg(prev.s, prev.inst.y) = 0
    /\ prev2.buffer = BufFill(UNSET)
    /\ Cardinality(Lit(prev.buffer)) = 14
    /\ Reg(prev.s, VF) = 0
    /\ Lit(buffer) = {}
    /\ Reg(s, VF) = 1

\* C9: with no timer write, a counter that started at c holds
\* max(0, c - floor(T / 16.6 ms)) after elapsed time T.
C9_TimerClosedForm ==
    /\ timer.delay_value =
           Max(0, hist.delay_set.val - ((now - hist.delay_set.at) \div TIMER_INTERVAL))
    /\ timer.sound_value =
           Max(0, hist.sound_set.val - ((now - hist.sound_set.at) \div TIMER_INTERVAL))

\* the step is an iteration that executes op to its end
Executes(op) == Decode(s, memory).op = op /\ s'.ip # s.ip

\* C9, as amended: an iteration that reads the clock 16.6 ms or more after
\* the last decrement takes 1 off each counter that is above 0 and leaves
\* a counter at 0 at 0, whatever instruction it executes; no other step
\* changes a counter, but for the two timer-write instructions; so the
\* counters are decremented at most floor(T / 16.6 ms) times in time T.
C9_TimerPolled ==
    [][LET due == now' # now /\ now' - timer.last_update >= TIMER_INTERVAL
       IN  /\ ~Executes("SetToDelay") =>
                  timer'.delay_value =
                      IF due THEN Max(0, timer.delay_value - 1) ELSE timer.delay_value
           /\ ~Executes("SetToSound") =>
                  timer'.sound_value =
                      IF due THEN Max(0, timer.sound_value - 1) ELSE timer.sound_value
           /\ hist'.ticks = IF due THEN hist.ticks + 1 ELSE hist.ticks
           /\ hist'.ticks * TIMER_INTERVAL <= now'
      ]_vars

\* C9, witness: two ticks have taken the delay counter from 3 to 1 and the
\* sound counter from 1 to 0, where it stayed
C9_Witness ==
    /\ hist.ticks = 2
    /\ hist.delay_set.val = 3 /\ timer.delay_value = 1
    /\ hist.sound_set.val = 1 /\ timer.sound_value = 0

\* whether the condition of a conditional skip holds
SkipHolds(inst) ==
    CASE inst.op = "SkipIfEqual" -> Reg(s, inst.x) = inst.kk
      [] inst.op = "SkipIfNotEqual" -> Reg(s, inst.x) # inst.kk
      [] inst.op = "SkipIfRegistersEqual" -> Reg(s, inst.x) = Reg(s, inst.y)
      [] inst.op = "SkipIfRegistersNotEqual" -> Reg(s, inst.x) # Reg(s, inst.y)
      [] inst.op = "SkipIfPressed" -> Reg(s, inst.x) \in keys
      [] inst.op = "SkipIfNotPressed" -> Reg(s, inst.x) \notin keys
      [] OTHER -> FALSE

\* C10: an executed instruction that is no jump, call or return commits
\* the old program counter + 2, or + 4 exactly when it is a conditional
\* skip whose condition holds.
C10_NextPc ==
    [][LET inst == Decode(s, memory)
       IN  (s'.ip # s.ip /\ inst.op \notin {"Jump", "Call", "Return"}) =>
               s'.ip = s.ip + 2 + (IF SkipHolds(inst) THEN 2 ELSE 0)
      ]_vars

\* C11: skip-if-key-pressed(r) commits the old program counter + 4 if the
\* key whose code is in register r is down and + 2 otherwise;
\* skip-if-key-not-pressed(r) commits + 4 if that key is up and + 2
\* otherwise.
C11_KeySkipsReadInput ==
    [][LET inst == Decode(s, memory)
           down == Reg(s, inst.x) \in keys
       IN  /\ Executes("SkipIfPressed") => s'.ip = s.ip + (IF down THEN 4 ELSE 2)
           /\ Executes("SkipIfNotPressed") => s'.ip = s.ip + (IF down THEN 2 ELSE 4)
      ]_vars

\* the base addresses of the sixteen glyphs
GlyphBases == {5 * g : g \in 0 .. 15}

\* C12: a set-index-to-glyph-address(r) that completes leaves the index
\* register at a glyph base address, a multiple of 5 in [0, 80): at v * 5
\* when register r holds v in 0..15, and at the base of the glyph v was
\* clamped to otherwise.
C12_GlyphAddress ==
    Ran("SetAddressToSprite") =>
        LET v == Reg(prev.s, prev.inst.x)
        IN  /\ s.address \in GlyphBases
            /\ v <= 15 => s.address = 5 * v

\* C13: an iteration whose word matches no decoder pattern, or decodes to
\* SysCall, ends the loop, and leaves the program counter, the registers,
\* the index register, the stack pointer, the stack, memory and the frame
\* buffer as they were before it.
C13_UndecodableStops ==
    prev.inst.op \in {"Unknown", "SysCall"} =>
        /\ ~prev.ok
        /\ status \in {"error", "panic"}
        /\ s = prev.s
        /\ memory.stack = prev.stack
        /\ DOMAIN prev.changed = {}
        /\ buffer = prev.buffer

\* C13, witness: the word 5011 at 0x208 matches no pattern; main has
\* returned the error with the program counter still at 0x208 and V0 = 1
C13_Witness ==
    /\ prev.inst.op = "Unknown"
    /\ status = "error"
    /\ s.ip = 520
    /\ MemGet(memory.mem, 520) = 80 /\ MemGet(memory.mem, 521) = 17
    /\ Reg(s, 0) = 1

\* C14: whenever the loop is about to decode an instruction, the program
\* counter leaves at least 2 bytes before the end of the 4096-byte memory.
C14_PcInsideMemory ==
    (status = "running" /\ LoopCondition) => (s.ip >= 0 /\ s.ip <= MEM_SIZE - 2)

\* C15: shift-right(X) and shift-left(X) execute to their end: register X
\* (when it is not register 15) holds v div 2, or (2 * v) mod 256, register
\* 15 holds the bit shifted out, and the program counter is the old one + 2.
C15_ShiftsExecute ==
    prev.inst.op \in {"ShrRegister", "ShlRegister"} =>
        LET v == Reg(prev.s, prev.inst.x)
            right == prev.inst.op = "ShrRegister"
        IN  /\ prev.ok
            /\ status = "running"
            /\ s.ip = prev.s.ip + 2
            /\ prev.inst.x # VF =>
                   Reg(s, prev.inst.x) = IF right THEN v \div 2 ELSE (2 * v) % 256
            /\ Reg(s, VF) = IF right THEN v % 2 ELSE v \div 128

\* the sprite pixels of the last draw that are 1, as <<row, column>>
SpritePixels ==
    {rc \in (0 .. prev.inst.kk - 1) \X (0 .. 7) :
        SpriteBit(OldMem(prev.s.address + rc[1]), rc[2]) = 1}

\* the cells those pixels fall on when positions wrap to the opposite edge
WrapCells ==
    {((Reg(prev.s, prev.inst.x) + rc[2]) % WIDTH)
         + ((Reg(prev.s, prev.inst.y) + rc[1]) % HEIGHT) * WIDTH : rc \in SpritePixels}

\* the cells those pixels fall on when positions past an edge are dropped
ClipCells ==
    {(Reg(prev.s, prev.inst.x) + rc[2]) + (Reg(prev.s, prev.inst.y) + rc[1]) * WIDTH :
        rc \in {p \in SpritePixels : /\ Reg(prev.s, prev.inst.x) + p[2] < WIDTH
                                     /\ Reg(prev.s, prev.inst.y) + p[1] < HEIGHT}}

SymDiff(A, B) == (A \ B) \cup (B \ A)

\* C16: a draw whose sprite bytes lie in memory runs to its end wherever
\* the sprite is, and toggles exactly the cells its 1 pixels fall on under
\* one edge policy: every pixel past an edge wraps to ((regX + col) mod 64,
\* (regY + row) mod 32), or every such pixel is dropped.
C16_DrawEdgePolicy ==
    (/\ prev.inst.op = "DrawSprite"
     /\ prev.inst.kk = 0 \/ InMem(prev.s.address + prev.inst.kk - 1)) =>
        /\ prev.ok
        /\ \/ Lit(buffer) = SymDiff(Lit(prev.buffer), WrapCells)
           \/ Lit(buffer) = SymDiff(Lit(prev.buffer), ClipCells)

\* C17: an instruction other than clear-screen and draw-sprite leaves the
\* frame buffer as it was, and after clear-screen no cell is set.
C17_OnlyDrawAndClearPaint ==
    /\ prev.inst.op \notin {"ClearScreen", "DrawSprite"} => buffer = prev.buffer
    /\ Ran("ClearScreen") => Lit(buffer) = {}

\* C17, witness: clear-screen ran on a frame buffer with cells set
C17_Witness ==
    /\ Ran("ClearScreen")
    /\ Cardinality(Lit(prev.buffer)) >= 14
    /\ Lit(buffer) = {}
    /\ buffer # prev.buffer

\* C18: once the exit signal is true the loop stops: no further instruction
\* is executed (the state, memory, frame buffer and timer stay as they
\* are), and main eventually ends, whatever instruction is current.
C18_ExitStops ==
    /\ exit_signal ~> status # "running"
    /\ [][exit_signal =>
              /\ s' = s /\ memory' = memory /\ buffer' = buffer /\ timer' = timer
              /\ status' \in {status, "exited"}]_vars

\* C18, witness: the exit signal came while the instruction at the program
\* counter was block-until-keypress and no key was down; main has returned
C18_Witness ==
    /\ exit_signal
    /\ status = "exited"
    /\ keys = {}
    /\ Decode(s, memory).op = "WaitKeyPress"

\* C19: the index register always holds a 12-bit address, 0..4095, and
\* add-register-to-index always runs to its end.
C19_IndexTwelveBit ==
    /\ s.address >= 0 /\ s.address <= MEM_SIZE - 1
    /\ prev.inst.op = "AddAddress" => prev.ok

\* C20: add-with-carry and subtract-with-borrow write the result, then the
\* flag.  With destination register 15 the register ends as the flag, 0 or
\* 1 (for subtract: 1 iff there was no borrow), and the result is lost;
\* with any other destination the register holds the result and register
\* 15 the flag.
C20_FlagWrittenLast ==
    (Ran("AdcRegister") \/ Ran("SwbRegister")) =>
        LET a == Reg(prev.s, prev.inst.x)
            b == Reg(prev.s, prev.inst.y)
            add == prev.inst.op = "AdcRegister"
        IN  /\ Reg(s, VF) \in {0, 1}
            /\ ~add => Reg(s, VF) = IF a >= b THEN 1 ELSE 0
            /\ prev.inst.x # VF =>
                   Reg(s, prev.inst.x) = IF add THEN (a + b) % 256 ELSE (a - b) % 256
            /\ \A r \in 0 .. NUM_REGS - 1 :
                   r \notin {prev.inst.x, VF} => Reg(s, r) = Reg(prev.s, r)

\* C20, witness: 8F14 with register 15 = 1 and V1 = 5: the sum 6 is lost and
\* register 15 holds a flag
C20_Witness ==
    /\ Ran("AdcRegister")
    /\ prev.inst.x = VF
    /\ Reg(prev.s, VF) = 1 /\ Reg(prev.s, prev.inst.y) = 5
    /\ Reg(s, VF) \in {0, 1}

====
